---- MODULE Spec2Model ----
(***************************************************************************)
(* Model of the HubSpot MCP server (src/src/index.ts): the upstream        *)
(* client makeHubSpotRequest, the dispatcher handleToolCall, the stdio     *)
(* request handlers and the HTTP routes, including the SSE streaming route.*)
(*                                                                         *)
(* JavaScript strings are sequences.  Texts whose individual characters    *)
(* matter (JSON serialisations, chunk slices) are sequences of one         *)
(* character strings; messages built by template literals are sequences of *)
(* their pieces.  An invocation runs atomically between its suspension     *)
(* points (fetch, reading the response body, the per chunk timer).         *)
(***************************************************************************)
EXTENDS Integers, Sequences, FiniteSets, TLC

VARIABLES env, proc, connected, listening, inv, served, failed, unit

vars == <<env, proc, connected, listening, inv, served, failed, unit>>

(***************************************************************************)
(* Bounds of the model.                                                    *)
(***************************************************************************)
MaxRequests == 2

Slots == {1}

(***************************************************************************)
(* Generic helpers.                                                        *)
(***************************************************************************)
Min(a, b) == IF a < b THEN a ELSE b

RECURSIVE FlattenRange(_, _, _)
FlattenRange(ss, lo, hi) ==
    IF lo > hi THEN <<>>
    ELSE IF lo = hi THEN ss[lo]
    ELSE LET mid == (lo + hi) \div 2
         IN FlattenRange(ss, lo, mid) \o FlattenRange(ss, mid + 1, hi)

Flatten(ss) == FlattenRange(ss, 1, Len(ss))

\* Object spread {...a, ...b}: the keys of both, b's value where both have one.
Spread(a, b) == [k \in DOMAIN a \cup DOMAIN b |-> IF k \in DOMAIN b THEN b[k] ELSE a[k]]

Contains(msg, piece) == \E k \in 1..Len(msg) : msg[k] = piece

(***************************************************************************)
(* JSON values.  A JSON string value is held by its length and the         *)
(* position of its one double quote character (0: none); its characters    *)
(* are given by Chars.  An array holds n copies of one JSON string.         *)
(***************************************************************************)
JNull == [t |-> "null", len |-> 0, q |-> 0, n |-> 0]

JString(len, q) == [t |-> "string", len |-> len, q |-> q, n |-> 0]

JArray(n, len) == [t |-> "array", len |-> len, q |-> 0, n |-> n]

Alphabet == <<"a", "b", "c">>

Chars(v) == [j \in 1..v.len |-> IF j = v.q THEN "\"" ELSE Alphabet[(j % 3) + 1]]

\* JSON.stringify of one string character: the double quote is escaped.
QuoteChar(c) == IF c = "\"" THEN <<"\\", "\"">> ELSE <<c>>

QuoteString(cs) == <<"\"">> \o Flatten([j \in 1..Len(cs) |-> QuoteChar(cs[j])]) \o <<"\"">>

RECURSIVE JoinItems(_, _)
JoinItems(item, n) ==
    IF n = 0 THEN <<>>
    ELSE IF n = 1 THEN <<" ", " ">> \o item
    ELSE JoinItems(item, n - 1) \o <<",", "\n", " ", " ">> \o item

\* JSON.stringify(value, null, 2)
JSONStringify(v) ==
    CASE v.t = "null" -> <<"n", "u", "l", "l">>
      [] v.t = "string" -> QuoteString(Chars(v))
      [] v.t = "array" ->
            IF v.n = 0 THEN <<"[", "]">>
            ELSE <<"[", "\n">> \o JoinItems(QuoteString(Chars(v)), v.n) \o <<"\n", "]">>

\* Variant of Slice: the end index is taken as inclusive of one character less.
SliceShort(str, from, to) == SubSeq(str, from + 1, Min(to, Len(str)) - 1)

\* String.prototype.slice(from, to) for 0 <= from <= to (0-based, end exclusive)
Slice(str, from, to) == SubSeq(str, from + 1, Min(to, Len(str)))

(***************************************************************************)
(* Configuration and the tool registry.                                    *)
(***************************************************************************)
HUBSPOT_API_BASE == "https://api.hubapi.com"

chunkSize == 1000

\* The tools array of the ListToolsRequestSchema handler, in declaration order.
\* Variant of ToolDefinitions: one tool is advertised under another name.
ToolDefinitionsRenamed ==
    << [name |-> "search_contacts", required |-> <<"query">>],
       [name |-> "get_contact", required |-> <<"contactId">>],
       [name |-> "create_contact", required |-> <<"email">>],
       [name |-> "update_contact", required |-> <<"contactId", "properties">>],
       [name |-> "list_deals", required |-> <<>>],
       [name |-> "create_deal", required |-> <<"dealname">>],
       [name |-> "search_companies", required |-> <<>>],
       [name |-> "create_company", required |-> <<"name">>] >>

ToolDefinitions ==
    << [name |-> "search_contacts", required |-> <<"query">>],
       [name |-> "get_contact", required |-> <<"contactId">>],
       [name |-> "create_contact", required |-> <<"email">>],
       [name |-> "update_contact", required |-> <<"contactId", "properties">>],
       [name |-> "list_deals", required |-> <<>>],
       [name |-> "create_deal", required |-> <<"dealname">>],
       [name |-> "list_companies", required |-> <<>>],
       [name |-> "create_company", required |-> <<"name">>] >>

ListToolsHandler == [tools |-> ToolDefinitions]

(***************************************************************************)
(* Argument objects.  present = FALSE is an absent (undefined) argument    *)
(* object; fields maps the keys the object has to their values.            *)
(***************************************************************************)
Has(args, f) == args.present /\ f \in DOMAIN args.fields

\* `${x}` of a property that may be undefined
Interpolate(args, f) == IF Has(args, f) THEN args.fields[f] ELSE "undefined"

\* Variant of LimitOf: limit || 10, a falsy limit takes the default too.
LimitOfFalsy(args) ==
    IF Has(args, "limit") /\ args.fields["limit"] # 0 THEN args.fields["limit"] ELSE 10

\* const { limit = 10 } = args
LimitOf(args) == IF Has(args, "limit") THEN args.fields["limit"] ELSE 10

\* JSON.stringify({ properties }): an undefined value drops its key
PropertiesBody(hasProps, props) ==
    IF hasProps THEN [properties |-> props] ELSE <<>>

TypeErrorMessage(prop) ==
    <<"Cannot destructure property '", prop, "' of 'args' as it is undefined.">>

Throw(message) == [kind |-> "throw", message |-> message]

(***************************************************************************)
(* makeHubSpotRequest up to its await of fetch: the request it issues.     *)
(***************************************************************************)
DefaultHeaders(key) ==
    ("Authorization" :> <<"Bearer ", key>>) @@ ("Content-Type" :> <<"application/json">>)

makeHubSpotRequest(key, endpoint, options) ==
    LET url == <<HUBSPOT_API_BASE>> \o endpoint
        headers == Spread(DefaultHeaders(key),
                          IF "headers" \in DOMAIN options THEN options.headers ELSE <<>>)
    IN [kind |-> "fetch",
        request |-> [url |-> url, init |-> Spread(options, [headers |-> headers])]]

\* Variant of UnknownTool: the message does not name the tool.
UnknownToolUnnamed(name) == Throw(<<"Unknown tool">>)

\* The default case of handleToolCall's switch.
UnknownTool(name) == Throw(<<"Unknown tool: ", name>>)

\* Variant of SearchBody: the filter tests equality.
SearchBodyEq(args) ==
    [filterGroups |-> <<[filters |-> <<
         IF Has(args, "query")
         THEN [propertyName |-> "email", operator |-> "EQ",
               value |-> args.fields["query"]]
         ELSE [propertyName |-> "email", operator |-> "EQ"] >>] >>,
     limit |-> LimitOf(args)]

\* The object search_contacts gives to JSON.stringify as the request body
\* (an undefined query drops the value key).
SearchBody(args) ==
    [filterGroups |-> <<[filters |-> <<
         IF Has(args, "query")
         THEN [propertyName |-> "email", operator |-> "CONTAINS_TOKEN",
               value |-> args.fields["query"]]
         ELSE [propertyName |-> "email", operator |-> "CONTAINS_TOKEN"] >>] >>,
     limit |-> LimitOf(args)]

(***************************************************************************)
(* handleToolCall up to its first suspension: either it throws, or it has  *)
(* issued one upstream request and awaits it.                              *)
(***************************************************************************)
handleToolCall(key, name, args) ==
    CASE name = "search_contacts" ->
            IF ~args.present THEN Throw(TypeErrorMessage("query"))
            ELSE makeHubSpotRequest(key, <<"/crm/v3/objects/contacts/search">>,
                    [method |-> "POST", body |-> SearchBody(args)])
      [] name = "get_contact" ->
            IF ~args.present THEN Throw(TypeErrorMessage("contactId"))
            ELSE makeHubSpotRequest(key,
                    <<"/crm/v3/objects/contacts/", Interpolate(args, "contactId")>>, <<>>)
      [] name = "create_contact" ->
            makeHubSpotRequest(key, <<"/crm/v3/objects/contacts">>,
                    [method |-> "POST",
                     body |-> PropertiesBody(args.present, args.fields)])
      [] name = "update_contact" ->
            IF ~args.present THEN Throw(TypeErrorMessage("contactId"))
            ELSE makeHubSpotRequest(key,
                    <<"/crm/v3/objects/contacts/", Interpolate(args, "contactId")>>,
                    [method |-> "PATCH",
                     body |-> PropertiesBody(Has(args, "properties"),
                                             IF Has(args, "properties")
                                             THEN args.fields["properties"] ELSE <<>>)])
      [] name = "list_deals" ->
            IF ~args.present THEN Throw(TypeErrorMessage("limit"))
            ELSE makeHubSpotRequest(key,
                    <<"/crm/v3/objects/deals?limit=", ToString(LimitOf(args))>>, <<>>)
      [] name = "create_deal" ->
            makeHubSpotRequest(key, <<"/crm/v3/objects/deals">>,
                    [method |-> "POST",
                     body |-> PropertiesBody(args.present, args.fields)])
      [] name = "list_companies" ->
            IF ~args.present THEN Throw(TypeErrorMessage("limit"))
            ELSE makeHubSpotRequest(key,
                    <<"/crm/v3/objects/companies?limit=", ToString(LimitOf(args))>>, <<>>)
      [] name = "create_company" ->
            makeHubSpotRequest(key, <<"/crm/v3/objects/companies">>,
                    [method |-> "POST",
                     body |-> PropertiesBody(args.present, args.fields)])
      [] OTHER -> UnknownTool(name)

(***************************************************************************)
(* Inputs: environments, tool names, argument objects, upstream outcomes.  *)
(***************************************************************************)
Environments ==
    { [HUBSPOT_API_KEY |-> k, MODE |-> m] : k \in {"", "pat-key"}, m \in {"stdio", "http"} }

RegisteredNames == { ToolDefinitions[k].name : k \in 1..Len(ToolDefinitions) }

UnknownNames == {"nonexistent_tool", "Search_Contacts"}

NameInputs == RegisteredNames \cup UnknownNames

NoArgs == [present |-> FALSE, fields |-> <<>>]

Obj(fields) == [present |-> TRUE, fields |-> fields]

ArgInputs ==
    { NoArgs,
      Obj(<<>>),
      Obj([limit |-> 5]),
      Obj([query |-> "a@b.com", contactId |-> "42",
           properties |-> [firstname |-> "Jane"]]),
      Obj([email |-> "a@b.com", dealname |-> "deal", name |-> "acme"]) }

\* The success payloads the upstream service answers with.
Payloads ==
    { JNull, JString(0, 0), JString(3, 2), JString(998, 0), JString(1200, 999),
      JString(999, 0), JString(1998, 0), JString(1999, 7), JArray(0, 0), JArray(2, 496) }

\* Response bodies: raw text that is valid JSON (with its value) or is not.
JsonBody(v) == [valid |-> TRUE, value |-> v, text |-> <<"<json>">>]

TextBody(text) == [valid |-> FALSE, value |-> JNull, text |-> text]

Statuses == {200, 299, 300, 404}

NoOutcome == [kind |-> "none", message |-> <<>>, status |-> 0, body |-> TextBody(<<>>)]

FetchOutcomes ==
    { [kind |-> "reject", message |-> <<"fetch failed">>, status |-> 0, body |-> TextBody(<<>>)] }
    \cup { [kind |-> "response", message |-> <<>>, status |-> st, body |-> b] :
             st \in Statuses, b \in {TextBody(<<>>), TextBody(<<"not found">>), JsonBody(JNull)} }
    \cup { [kind |-> "response", message |-> <<>>, status |-> 200, body |-> JsonBody(v)] :
             v \in Payloads }

(***************************************************************************)
(* makeHubSpotRequest after fetch has settled: what it returns or throws.  *)
(***************************************************************************)
\* Variant of ResponseOk: the last status of the success range is excluded.
ResponseOkStrict(status) == 200 <= status /\ status < 299

ResponseOk(status) == 200 <= status /\ status <= 299

Return(value) == [kind |-> "return", value |-> value]

makeHubSpotRequestSettle(outcome) ==
    IF outcome.kind = "reject" THEN Throw(outcome.message)
    ELSE IF ~ResponseOk(outcome.status)
         THEN Throw(<<"HubSpot API error: ", ToString(outcome.status), " - ">>
                    \o outcome.body.text)
    ELSE IF outcome.body.valid THEN Return(outcome.body.value)
    ELSE IF outcome.body.text = <<>> THEN Throw(<<"Unexpected end of JSON input">>)
    ELSE Throw(<<"Unexpected token in JSON: ">> \o outcome.body.text)

(***************************************************************************)
(* One invocation: the request being served in a slot.                     *)
(*   route  "list" / "call": stdio requests; "tools" / "sync" / "stream":  *)
(*          GET /tools, POST /tools/:toolName, POST /tools/:toolName/execute*)
(*   pc     "fetch": awaiting the upstream call; "delay": awaiting the     *)
(*          per chunk timer; "done": the handler has returned; "crashed":  *)
(*          an exception left the handler                                  *)
(*   result / resultStr / i  the locals of the streaming route             *)
(*   requests  the upstream requests issued; settled / outcome  how the    *)
(*          upstream call ended, once it has; events  the SSE events       *)
(*          written; ended  res.end() was called; replies  the responses   *)
(*          sent (stdio result, or HTTP status and JSON body)              *)
(*   id     the arrival number of the request; closedAt  where the handler *)
(*          was when the client closed the connection ("open": it has not) *)
(*   issuedAt  how many events had been written when the upstream request  *)
(*          was issued (-1: none was issued)                               *)
(***************************************************************************)
Idle ==
    [route |-> "none", pc |-> "idle", name |-> "", args |-> NoArgs,
     requests |-> <<>>, settled |-> FALSE, outcome |-> NoOutcome,
     hasResult |-> FALSE, result |-> JNull, resultStr |-> <<>>, i |-> 0,
     events |-> <<>>, ended |-> FALSE, replies |-> <<>>, id |-> 0, closedAt |-> "open",
     issuedAt |-> -1]

\* sendEvent: two res.write calls making one event
sendEvent(r, event, data) ==
    [r EXCEPT !.events = Append(@, [event |-> event, data |-> data, afterEnd |-> r.ended])]

\* Variant of End: the handler returns without ending the response.
EndOmitted(r) == [r EXCEPT !.pc = "done"]

\* res.end()
End(r) == [r EXCEPT !.ended = TRUE, !.pc = "done"]

\* res.json(body) / res.status(code).json(body), and the stdio handler's return
Reply(r, reply) == [r EXCEPT !.replies = Append(@, reply), !.pc = "done"]

\* Math.min(100, ((i + chunkSize) / length) * 100), as the fraction num / den
\* Variant of Progress: the percentage is not capped.
ProgressUncapped(i, length) ==
    [num |-> (i + chunkSize) * 100, den |-> length]

Progress(i, length) ==
    [num |-> Min(100 * length, (i + chunkSize) * 100), den |-> length]

\* Variant of StreamLoop: the loop test is i <= length.
StreamLoopInclusive(r) ==
    IF r.i <= Len(r.resultStr)
    THEN [sendEvent(r, "chunk",
             [data |-> Slice(r.resultStr, r.i, r.i + chunkSize),
              progress |-> Progress(r.i, Len(r.resultStr))])
          EXCEPT !.pc = "delay"]
    ELSE End(sendEvent(r, "complete", [result |-> r.result]))

\* The streaming route at its loop test, with r.i the loop variable.
\* Variant of StreamLoop: no delay between a chunk and the next one.
StreamLoopNoYield(r) ==
    IF r.i < Len(r.resultStr)
    THEN LET one == sendEvent(r, "chunk",
                       [data |-> Slice(r.resultStr, r.i, r.i + chunkSize),
                        progress |-> Progress(r.i, Len(r.resultStr))])
             j == r.i + chunkSize
         IN IF j < Len(r.resultStr)
            THEN [sendEvent(one, "chunk",
                     [data |-> Slice(r.resultStr, j, j + chunkSize),
                      progress |-> Progress(j, Len(r.resultStr))])
                  EXCEPT !.pc = "delay", !.i = j]
            ELSE [one EXCEPT !.pc = "delay"]
    ELSE End(sendEvent(r, "complete", [result |-> r.result]))

StreamLoop(r) ==
    IF r.i < Len(r.resultStr)
    THEN [sendEvent(r, "chunk",
             [data |-> Slice(r.resultStr, r.i, r.i + chunkSize),
              progress |-> Progress(r.i, Len(r.resultStr))])
          EXCEPT !.pc = "delay"]
    ELSE End(sendEvent(r, "complete", [result |-> r.result]))

\* Variant of CallToolSettle: no catch block, a failure leaves the handler.
CallToolSettleUncaught(r, outcome) ==
    IF outcome.kind = "return"
    THEN Reply(r, [content |-> <<[type |-> "text", text |-> JSONStringify(outcome.value)]>>])
    ELSE [r EXCEPT !.pc = "crashed"]

\* Variant of CallToolSettle: the catch block does not set isError.
CallToolSettleNoFlag(r, outcome) ==
    IF outcome.kind = "return"
    THEN Reply(r, [content |-> <<[type |-> "text", text |-> JSONStringify(outcome.value)]>>])
    ELSE Reply(r, [content |-> <<[type |-> "text", text |-> <<"Error: ">> \o outcome.message]>>])

\* The CallToolRequestSchema handler once handleToolCall has settled.
CallToolSettle(r, outcome) ==
    IF outcome.kind = "return"
    THEN Reply(r, [content |-> <<[type |-> "text", text |-> JSONStringify(outcome.value)]>>])
    ELSE Reply(r, [content |-> <<[type |-> "text", text |-> <<"Error: ">> \o outcome.message]>>,
                   isError |-> TRUE])

\* Variant of SyncSettle: no catch block, a failure leaves the handler.
SyncSettleUncaught(r, outcome) ==
    IF outcome.kind = "return"
    THEN Reply(r, [status |-> 200, body |-> [success |-> TRUE, result |-> outcome.value]])
    ELSE [r EXCEPT !.pc = "crashed"]

\* Variant of SyncSettle: the catch block does not set the status.
SyncSettleNoStatus(r, outcome) ==
    IF outcome.kind = "return"
    THEN Reply(r, [status |-> 200, body |-> [success |-> TRUE, result |-> outcome.value]])
    ELSE Reply(r, [status |-> 200, body |-> [success |-> FALSE, error |-> outcome.message]])

\* Variant of SyncSettle: the failure body also carries a result.
SyncSettleLeaky(r, outcome) ==
    IF outcome.kind = "return"
    THEN Reply(r, [status |-> 200, body |-> [success |-> TRUE, result |-> outcome.value]])
    ELSE Reply(r, [status |-> 500, body |-> [success |-> FALSE, error |-> outcome.message,
                                             result |-> JNull]])

\* The POST /tools/:toolName route once handleToolCall has settled.
SyncSettle(r, outcome) ==
    IF outcome.kind = "return"
    THEN Reply(r, [status |-> 200, body |-> [success |-> TRUE, result |-> outcome.value]])
    ELSE Reply(r, [status |-> 500, body |-> [success |-> FALSE, error |-> outcome.message]])

\* Variant of StreamSettle: the catch block falls through to the complete event.
StreamSettleFallThrough(r, outcome) ==
    IF outcome.kind = "return"
    THEN StreamLoop([r EXCEPT !.hasResult = TRUE, !.result = outcome.value,
                              !.resultStr = JSONStringify(outcome.value), !.i = 0])
    ELSE End(sendEvent(sendEvent(r, "error", [error |-> outcome.message]),
                       "complete", [result |-> JNull]))

\* Variant of StreamSettle: the error event carries String(error), which
\* prefixes the message with the error's name.
StreamSettleStringified(r, outcome) ==
    IF outcome.kind = "return"
    THEN StreamLoop([r EXCEPT !.hasResult = TRUE, !.result = outcome.value,
                              !.resultStr = JSONStringify(outcome.value), !.i = 0])
    ELSE End(sendEvent(r, "error", [error |-> <<"Error: ">> \o outcome.message]))

\* The POST /tools/:toolName/execute route once handleToolCall has settled.
StreamSettle(r, outcome) ==
    IF outcome.kind = "return"
    THEN StreamLoop([r EXCEPT !.hasResult = TRUE, !.result = outcome.value,
                              !.resultStr = JSONStringify(outcome.value), !.i = 0])
    ELSE End(sendEvent(r, "error", [error |-> outcome.message]))

Settle(r, outcome) ==
    CASE r.route = "call" -> CallToolSettle(r, outcome)
      [] r.route = "sync" -> SyncSettle(r, outcome)
      [] r.route = "stream" -> StreamSettle(r, outcome)

\* A handler up to its first suspension: handleToolCall either throws at once
\* or issues its upstream request.
Dispatch(r, key) ==
    LET call == handleToolCall(key, r.name, r.args)
    IN IF call.kind = "throw" THEN Settle(r, call)
       ELSE [r EXCEPT !.requests = Append(@, call.request), !.pc = "fetch",
                      !.issuedAt = Len(r.events)]

\* server.request(): without a connected transport it rejects.
ServerRequest(isConnected) ==
    IF isConnected THEN [kind |-> "sent"] ELSE Throw(<<"Not connected">>)

(***************************************************************************)
(* Whether a finished invocation failed, as its caller sees it.            *)
(***************************************************************************)
Last(seq) == seq[Len(seq)]

Failed(r) ==
    /\ r.pc \in {"done", "crashed"}
    /\ \/ r.pc = "crashed"
       \/ r.route = "call" /\ "isError" \in DOMAIN Last(r.replies)
       \/ r.route \in {"sync", "tools"} /\ Last(r.replies).status = 500
       \/ r.route = "stream" /\ Last(r.events).event = "error"

\* An exception that leaves an HTTP route handler is an unhandled rejection,
\* which ends the process; the stdio session answers it with a protocol error.
ProcAfter(r) ==
    IF r.pc = "crashed" /\ r.route \in {"tools", "sync", "stream"} THEN "exited" ELSE proc

\* Variant of Commit: resultStr is one variable shared by all handlers.
CommitShared(s, r) ==
    /\ inv' = [t \in DOMAIN inv |->
                 IF t = s THEN r ELSE [inv[t] EXCEPT !.resultStr = r.resultStr]]
    /\ proc' = ProcAfter(r)
    /\ failed' = IF Failed(r) THEN failed + 1 ELSE failed

Commit(s, r) ==
    /\ inv' = [inv EXCEPT ![s] = r]
    /\ proc' = ProcAfter(r)
    /\ failed' = IF Failed(r) THEN failed + 1 ELSE failed

CanReceive(s) ==
    /\ proc = "running"
    /\ inv[s].pc \in {"idle", "done"}
    /\ served < MaxRequests

Fresh(route, name, args) ==
    [Idle EXCEPT !.route = route, !.name = name, !.args = args, !.id = served + 1]

(***************************************************************************)
(* One call of the dispatcher or of the upstream client taken by itself:   *)
(* its inputs, the request it issued or the error it threw (call), and     *)
(* what the client returned or threw once the upstream answered (result).  *)
(***************************************************************************)
UnitIdle ==
    [pc |-> "idle", name |-> "", args |-> NoArgs, endpoint |-> <<>>, options |-> <<>>,
     call |-> [kind |-> "none"], outcome |-> NoOutcome, result |-> [kind |-> "none"]]

(***************************************************************************)
(* The state machine.                                                      *)
(***************************************************************************)
Init ==
    /\ env \in Environments
    /\ proc = "loading"
    /\ connected = FALSE
    /\ listening = FALSE
    /\ inv = [s \in Slots |-> Idle]
    /\ served = 0
    /\ failed = 0
    /\ unit = UnitIdle

\* Module load (the credential check) and main().
Startup ==
    /\ proc = "loading"
    /\ IF env.HUBSPOT_API_KEY = ""
       THEN proc' = "exited" /\ UNCHANGED <<connected, listening>>
       ELSE /\ proc' = "running"
            /\ IF env.MODE = "http"
               THEN listening' = TRUE /\ UNCHANGED connected
               ELSE connected' = TRUE /\ UNCHANGED listening
    /\ UNCHANGED <<unit, env, inv, served, failed>>

\* stdio "tools/list"
StdioListTools(s) ==
    /\ CanReceive(s) /\ connected
    /\ Commit(s, Reply(Fresh("list", "", NoArgs), ListToolsHandler))
    /\ served' = served + 1
    /\ UNCHANGED <<unit, env, connected, listening>>

\* stdio "tools/call"
StdioCallTool(s, name, args) ==
    /\ CanReceive(s) /\ connected
    /\ Commit(s, Dispatch(Fresh("call", name, args), env.HUBSPOT_API_KEY))
    /\ served' = served + 1
    /\ UNCHANGED <<unit, env, connected, listening>>

\* GET /tools
HttpGetTools(s) ==
    /\ CanReceive(s) /\ listening
    /\ LET r == Fresh("tools", "", NoArgs)
           tools == ServerRequest(connected)
       IN Commit(s, IF tools.kind = "throw"
                    THEN Reply(r, [status |-> 500, body |-> [error |-> tools.message]])
                    ELSE [r EXCEPT !.pc = "peer"])
    /\ served' = served + 1
    /\ UNCHANGED <<unit, env, connected, listening>>

\* new Date().toISOString() at the moment of the request
Timestamps == {"2026-01-01T00:00:00.000Z", "2026-01-01T00:00:01.000Z"}

\* Variant of HttpGetHealth: the status reflects earlier upstream failures.
HttpGetHealthProbing(s, now) ==
    /\ CanReceive(s) /\ listening
    /\ Commit(s, Reply(Fresh("health", "", NoArgs),
                       [status |-> IF failed > 0 THEN 503 ELSE 200,
                        body |-> [status |-> "healthy", timestamp |-> now]]))
    /\ served' = served + 1
    /\ UNCHANGED <<unit, env, connected, listening>>

\* GET /health
HttpGetHealth(s, now) ==
    /\ CanReceive(s) /\ listening
    /\ Commit(s, Reply(Fresh("health", "", NoArgs),
                       [status |-> 200,
                        body |-> [status |-> "healthy", timestamp |-> now]]))
    /\ served' = served + 1
    /\ UNCHANGED <<unit, env, connected, listening>>

\* POST /tools/:toolName
HttpPostTool(s, name, args) ==
    /\ CanReceive(s) /\ listening
    /\ Commit(s, Dispatch(Fresh("sync", name, args), env.HUBSPOT_API_KEY))
    /\ served' = served + 1
    /\ UNCHANGED <<unit, env, connected, listening>>

\* Variant of HttpPostExecute: the start event is written after the dispatch.
HttpPostExecuteLateStart(s, name, args) ==
    /\ CanReceive(s) /\ listening
    /\ Commit(s, sendEvent(Dispatch(Fresh("stream", name, args), env.HUBSPOT_API_KEY),
                           "start", [tool |-> name, args |-> args]))
    /\ served' = served + 1
    /\ UNCHANGED <<unit, env, connected, listening>>

\* POST /tools/:toolName/execute
HttpPostExecute(s, name, args) ==
    /\ CanReceive(s) /\ listening
    /\ Commit(s, Dispatch(sendEvent(Fresh("stream", name, args), "start",
                                    [tool |-> name, args |-> args]),
                          env.HUBSPOT_API_KEY))
    /\ served' = served + 1
    /\ UNCHANGED <<unit, env, connected, listening>>

\* The upstream call of an invocation settles; its handler runs on.
\* Variant of UpstreamSettle: a settlement is taken up only when no earlier
\* request is still awaiting its own.
UpstreamSettleInOrder(s, outcome) ==
    /\ proc = "running"
    /\ inv[s].pc = "fetch"
    /\ \A t \in DOMAIN inv : inv[t].pc = "fetch" => inv[s].id <= inv[t].id
    /\ Commit(s, Settle([inv[s] EXCEPT !.settled = TRUE, !.outcome = outcome],
                        makeHubSpotRequestSettle(outcome)))
    /\ UNCHANGED <<unit, env, connected, listening, served>>

UpstreamSettle(s, outcome) ==
    /\ proc = "running"
    /\ inv[s].pc = "fetch"
    /\ Commit(s, Settle([inv[s] EXCEPT !.settled = TRUE, !.outcome = outcome],
                        makeHubSpotRequestSettle(outcome)))
    /\ UNCHANGED <<unit, env, connected, listening, served>>

\* The per chunk timer of a streaming invocation fires: i += chunkSize.
\* Variant of TimerFire: the loop index does not advance.
TimerFireStalled(s) ==
    /\ proc = "running"
    /\ inv[s].pc = "delay"
    /\ Commit(s, StreamLoop(inv[s]))
    /\ UNCHANGED <<unit, env, connected, listening, served>>

TimerFire(s) ==
    /\ proc = "running"
    /\ inv[s].pc = "delay"
    /\ Commit(s, StreamLoop([inv[s] EXCEPT !.i = @ + chunkSize]))
    /\ UNCHANGED <<unit, env, connected, listening, served>>

\* Variant of ClientClose: closing the connection aborts the handler.
ClientCloseAborts(s) ==
    /\ proc = "running"
    /\ inv[s].route \in {"sync", "stream"}
    /\ inv[s].pc \in {"fetch", "delay"}
    /\ inv[s].closedAt = "open"
    /\ inv' = [inv EXCEPT ![s].closedAt = inv[s].pc, ![s].pc = "done"]
    /\ UNCHANGED <<unit, env, proc, connected, listening, served, failed>>

\* The client of an HTTP invocation in flight closes its connection.  The
\* routes register no close listener: nothing but the connection changes.
ClientClose(s) ==
    /\ proc = "running"
    /\ inv[s].route \in {"sync", "stream"}
    /\ inv[s].pc \in {"fetch", "delay"}
    /\ inv[s].closedAt = "open"
    /\ inv' = [inv EXCEPT ![s].closedAt = inv[s].pc]
    /\ UNCHANGED <<unit, env, proc, connected, listening, served, failed>>

Next ==
    \/ Startup
    \/ \E s \in Slots : StdioListTools(s)
    \/ \E s \in Slots, name \in NameInputs, args \in ArgInputs : StdioCallTool(s, name, args)
    \/ \E s \in Slots : HttpGetTools(s)
    \/ \E s \in Slots, now \in Timestamps : HttpGetHealth(s, now)
    \/ \E s \in Slots, name \in NameInputs, args \in ArgInputs : HttpPostTool(s, name, args)
    \/ \E s \in Slots, name \in NameInputs, args \in ArgInputs : HttpPostExecute(s, name, args)
    \/ \E s \in Slots, outcome \in FetchOutcomes : UpstreamSettle(s, outcome)
    \/ \E s \in Slots : TimerFire(s)

Spec == Init /\ [][Next]_vars

TypeOK ==
    /\ proc \in {"loading", "running", "exited"}
    /\ served \in 0..MaxRequests
    /\ failed \in 0..served
    /\ \A s \in Slots : inv[s].pc \in {"idle", "fetch", "delay", "done", "peer", "crashed"}

(***************************************************************************)
(* Properties of the streaming route.                                      *)
(***************************************************************************)
Invocations == { inv[s] : s \in DOMAIN inv }

Streams == { r \in Invocations : r.route = "stream" }

Terminal(e) == e.event \in {"complete", "error"}

EventKinds(r) == [k \in 1..Len(r.events) |-> r.events[k].event]

CountKind(r, kind) == Cardinality({ k \in 1..Len(r.events) : r.events[k].event = kind })

ConcatChunks(r) ==
    FlattenRange([k \in 1..Len(r.events) |->
                     IF r.events[k].event = "chunk" THEN r.events[k].data.data ELSE <<>>],
                 1, Len(r.events))

\* C1: the events of a streaming invocation are start, chunk(0), chunk(1), ...,
\* complete or start, error: start is first and is written once, the k-th chunk
\* carries slice k of the result text, and nothing follows a terminal event.
C1_StreamOrder ==
    \A r \in Streams :
        LET ev == r.events
            n == Len(ev)
        IN /\ n >= 1
           /\ ev[1].event = "start"
           /\ \A k \in 2..n :
                \/ /\ ev[k].event = "chunk"
                   /\ r.hasResult
                   /\ (k - 2) * chunkSize < Len(r.resultStr)
                   /\ ev[k].data.data =
                        SubSeq(r.resultStr, (k - 2) * chunkSize + 1,
                               Min((k - 1) * chunkSize, Len(r.resultStr)))
                   /\ \A j \in 2..(k - 1) : ev[j].event = "chunk"
                \/ /\ ev[k].event = "complete"
                   /\ k = n
                   /\ \A j \in 2..(k - 1) : ev[j].event = "chunk"
                \/ /\ ev[k].event = "error"
                   /\ k = n
                   /\ k = 2

C1_Witness ==
    \E r \in Streams :
        /\ r.pc = "done"
        /\ EventKinds(r) = <<"start", "chunk", "chunk", "chunk", "complete">>

\* C2: a streaming invocation writes at most one terminal event, the response
\* is ended exactly when the terminal event has been written, the handler is
\* finished exactly then, and no event is written on an ended response.
C2_StreamEndsOnce ==
    \A r \in Streams :
        LET terminals == CountKind(r, "complete") + CountKind(r, "error")
        IN /\ terminals <= 1
           /\ r.ended <=> terminals = 1
           /\ r.ended <=> r.pc = "done"
           /\ r.ended => Terminal(Last(r.events))
           /\ \A k \in 1..Len(r.events) : ~r.events[k].afterEnd

C2_Witness ==
    \E r \in Streams :
        /\ r.ended
        /\ EventKinds(r) = <<"start", "chunk", "complete">>

\* How the dispatched call of an invocation ended.
DispatchFailed(r, key) ==
    \/ handleToolCall(key, r.name, r.args).kind = "throw"
    \/ r.settled /\ makeHubSpotRequestSettle(r.outcome).kind = "throw"

FailureMessage(r, key) ==
    IF handleToolCall(key, r.name, r.args).kind = "throw"
    THEN handleToolCall(key, r.name, r.args).message
    ELSE makeHubSpotRequestSettle(r.outcome).message

\* C3: when the dispatched call of a streaming invocation fails, the stream
\* is start followed by one error event carrying the failure message, with
\* no chunk and no complete event.
C3_StreamFailure ==
    \A r \in Streams :
        DispatchFailed(r, env.HUBSPOT_API_KEY) =>
            /\ r.pc = "done"
            /\ EventKinds(r) = <<"start", "error">>
            /\ r.events[2].data.error = FailureMessage(r, env.HUBSPOT_API_KEY)
            /\ Len(r.events[2].data.error) >= 1

C3_Witness ==
    \E r \in Streams :
        /\ r.settled
        /\ r.outcome.kind = "response"
        /\ r.outcome.status = 404
        /\ CountKind(r, "error") = 1

\* C4: a successful streaming invocation whose result text has length L >= 1
\* writes ceil(L / chunkSize) chunk events, all before its one complete
\* event; every slice but the last has chunkSize characters and the last has
\* between 1 and chunkSize.
C4_ChunkCount ==
    \A r \in Streams :
        (r.hasResult /\ r.pc = "done") =>
            LET L == Len(r.resultStr)
                count == CountKind(r, "chunk")
            IN /\ L >= 1
               /\ count = (L + chunkSize - 1) \div chunkSize
               /\ CountKind(r, "complete") = 1
               /\ Len(r.events) = count + 2
               /\ Last(r.events).event = "complete"
               /\ \A k \in 2..count : Len(r.events[k].data.data) = chunkSize
               /\ Len(r.events[count + 1].data.data) \in 1..chunkSize

C4_Witness ==
    \E r \in Streams :
        /\ r.hasResult /\ r.pc = "done"
        /\ Len(r.resultStr) = 2 * chunkSize
        /\ CountKind(r, "chunk") = 2

\* C5: the slice texts of the chunk events of a streaming invocation,
\* concatenated in the order written, are the part of the result text sent
\* so far, and on completion the whole result text.
C5_ChunkRoundTrip ==
    \A r \in Streams :
        r.hasResult =>
            LET text == JSONStringify(r.result)
                sent == CountKind(r, "chunk") * chunkSize
            IN /\ ConcatChunks(r) = SubSeq(text, 1, Min(sent, Len(text)))
               /\ r.pc = "done" => ConcatChunks(r) = text

C5_Witness ==
    \E r \in Streams :
        /\ r.hasResult /\ r.pc = "done"
        /\ r.result.t = "array"
        /\ CountKind(r, "chunk") = 2
        /\ ConcatChunks(r) = r.resultStr

(***************************************************************************)
(* Properties of the dispatcher as its three call sites see it.            *)
(***************************************************************************)
Dispatched == { r \in Invocations : r.route \in {"call", "sync", "stream"} }

\* The shapes in which each call site reports a success and a failure.
SuccessForm(r) ==
    CASE r.route = "call" ->
            /\ Len(r.replies) = 1
            /\ "isError" \notin DOMAIN r.replies[1]
            /\ Len(r.replies[1].content) = 1
      [] r.route = "sync" ->
            /\ Len(r.replies) = 1
            /\ r.replies[1].status = 200
            /\ DOMAIN r.replies[1].body = {"success", "result"}
            /\ r.replies[1].body.success
      [] r.route = "stream" ->
            /\ r.ended
            /\ CountKind(r, "complete") = 1
            /\ CountKind(r, "error") = 0

FailureForm(r) ==
    CASE r.route = "call" ->
            /\ Len(r.replies) = 1
            /\ "isError" \in DOMAIN r.replies[1]
            /\ r.replies[1].isError
            /\ Len(r.replies[1].content) = 1
      [] r.route = "sync" ->
            /\ Len(r.replies) = 1
            /\ r.replies[1].status = 500
            /\ DOMAIN r.replies[1].body = {"success", "error"}
            /\ ~r.replies[1].body.success
      [] r.route = "stream" ->
            /\ r.ended
            /\ CountKind(r, "error") = 1
            /\ CountKind(r, "complete") = 0

ReportedMessage(r) ==
    CASE r.route = "call" -> r.replies[1].content[1].text
      [] r.route = "sync" -> r.replies[1].body.error
      [] r.route = "stream" -> Last(r.events).data.error

C7_ServingSurvivesFailures ==
    /\ [][proc = "running" =>
            (proc' = "running" /\ connected' = connected /\ listening' = listening)]_vars
    /\ [](( /\ proc = "running"
            /\ failed >= 1
            /\ served < MaxRequests
            /\ \A s \in Slots : inv[s].pc = "done" )
           => \/ connected /\ ENABLED (\E s \in Slots :
                                          StdioCallTool(s, "get_contact", NoArgs))
              \/ listening /\ ENABLED (\E s \in Slots :
                                          HttpPostTool(s, "get_contact", NoArgs))
                           /\ ENABLED (\E s \in Slots :
                                          HttpPostExecute(s, "get_contact", NoArgs)))

C7_Witness ==
    /\ proc = "running"
    /\ failed >= 1
    /\ served >= 2
    /\ \E r \in Dispatched : r.pc = "done" /\ r.settled /\ SuccessForm(r)

\* C8: a tool name that is not registered fails on all three paths, at
\* dispatch: no upstream request is issued, the invocation is finished at
\* once, and the reported message contains the tool name.
C8_UnknownTool ==
    \A r \in Dispatched :
        r.name \notin RegisteredNames =>
            /\ r.pc = "done"
            /\ Len(r.requests) = 0
            /\ ~r.settled
            /\ FailureForm(r)
            /\ ~SuccessForm(r)
            /\ Contains(ReportedMessage(r), r.name)

C8_Witness ==
    \E r \in Dispatched :
        /\ r.route = "stream"
        /\ r.name = "nonexistent_tool"
        /\ Contains(ReportedMessage(r), "nonexistent_tool")

\* The arguments have every property the tool's definition requires.
MinimallyValid(name, args) ==
    /\ args.present
    /\ \E k \in 1..Len(ToolDefinitions) :
          /\ ToolDefinitions[k].name = name
          /\ \A j \in 1..Len(ToolDefinitions[k].required) :
                ToolDefinitions[k].required[j] \in DOMAIN args.fields

ReportedPayload(r) ==
    CASE r.route = "call" -> r.replies[1].content[1].text
      [] r.route = "sync" -> r.replies[1].body.result
      [] r.route = "stream" -> Last(r.events).data.result

\* C9: a registered tool called with minimally valid arguments issues its
\* upstream request, and once that has settled reports a success with the
\* upstream payload if the upstream call returned, and a failure carrying the
\* upstream error message if it failed.
C9_OutcomeFollowsUpstream ==
    \A r \in Dispatched :
        (r.name \in RegisteredNames /\ MinimallyValid(r.name, r.args)) =>
            /\ Len(r.requests) = 1
            /\ r.settled <=> r.pc \in {"done", "delay"}
            /\ (r.pc = "done" /\ makeHubSpotRequestSettle(r.outcome).kind = "return") =>
                    /\ SuccessForm(r)
                    /\ ~FailureForm(r)
                    /\ ReportedPayload(r) =
                         IF r.route = "call"
                         THEN JSONStringify(makeHubSpotRequestSettle(r.outcome).value)
                         ELSE makeHubSpotRequestSettle(r.outcome).value
            /\ (r.settled /\ makeHubSpotRequestSettle(r.outcome).kind = "throw") =>
                    /\ r.pc = "done"
                    /\ FailureForm(r)
                    /\ ~SuccessForm(r)
                    /\ ReportedMessage(r) =
                         IF r.route = "call"
                         THEN <<"Error: ">> \o makeHubSpotRequestSettle(r.outcome).message
                         ELSE makeHubSpotRequestSettle(r.outcome).message

C9_Witness ==
    \E r \in Dispatched :
        /\ r.route = "sync"
        /\ r.name = "update_contact"
        /\ MinimallyValid(r.name, r.args)
        /\ r.settled
        /\ r.outcome.kind = "reject"
        /\ FailureForm(r)

(***************************************************************************)
(* GET /tools.                                                             *)
(***************************************************************************)
\* C10: every GET /tools is answered 200 with the registry's list of the
\* eight tool definitions in declaration order.
C10_ToolsListed ==
    \A r \in Invocations :
        r.route = "tools" =>
            /\ r.pc = "done"
            /\ Len(r.replies) = 1
            /\ r.replies[1].status = 200
            /\ r.replies[1].body = ListToolsHandler


(***************************************************************************)
(* Properties of the synchronous route and of the stdio call handler.      *)
(***************************************************************************)
Syncs == { r \in Invocations : r.route = "sync" }

Calls == { r \in Invocations : r.route = "call" }

\* C11: a POST /tools/{toolName} request gets one response once its handler
\* has finished and none before: 200 {success: true, result} exactly when the
\* dispatched call succeeded, 500 {success: false, error} exactly when it
\* failed, never a body with both result and error.
C11_SyncResponse ==
    \A r \in Syncs :
        /\ Len(r.replies) <= 1
        /\ Len(r.replies) = 1 <=> r.pc = "done"
        /\ r.pc = "done" =>
              LET rep == r.replies[1]
                  failure == DispatchFailed(r, env.HUBSPOT_API_KEY)
              IN /\ rep.status \in {200, 500}
                 /\ rep.status = 500 <=> failure
                 /\ ~({"result", "error"} \subseteq DOMAIN rep.body)
                 /\ rep.status = 200 =>
                       /\ DOMAIN rep.body = {"success", "result"}
                       /\ rep.body.success
                       /\ rep.body.result = r.outcome.body.value
                 /\ rep.status = 500 =>
                       /\ DOMAIN rep.body = {"success", "error"}
                       /\ ~rep.body.success
                       /\ rep.body.error = FailureMessage(r, env.HUBSPOT_API_KEY)

C11_Witness ==
    \E r \in Syncs :
        /\ r.pc = "done"
        /\ r.name \in UnknownNames
        /\ r.replies[1].status = 500

\* C12 as claimed: every stdio "call tool" response has one text content item
\* and an isError key holding a boolean, TRUE exactly when the invocation
\* failed, and on success the text is the JSON serialisation of the payload.
C12_IsErrorAlwaysPresent ==
    \A r \in Calls :
        r.pc = "done" =>
            /\ Len(r.replies) = 1
            /\ Len(r.replies[1].content) = 1
            /\ r.replies[1].content[1].type = "text"
            /\ "isError" \in DOMAIN r.replies[1]
            /\ r.replies[1].isError \in BOOLEAN
            /\ r.replies[1].isError <=> DispatchFailed(r, env.HUBSPOT_API_KEY)

\* C12 as amended: every stdio "call tool" response has one text content
\* item; it has the key isError, with value TRUE, exactly when the invocation
\* failed and has no isError key when it succeeded; on success the text is the
\* JSON serialisation of the payload and on failure "Error: " and the message.
C12_IsErrorOnlyOnFailure ==
    \A r \in Calls :
        r.pc = "done" =>
            LET rep == r.replies[1]
                failure == DispatchFailed(r, env.HUBSPOT_API_KEY)
            IN /\ Len(r.replies) = 1
               /\ Len(rep.content) = 1
               /\ rep.content[1].type = "text"
               /\ "isError" \in DOMAIN rep <=> failure
               /\ failure =>
                     /\ DOMAIN rep = {"content", "isError"}
                     /\ rep.isError = TRUE
                     /\ rep.content[1].text =
                          <<"Error: ">> \o FailureMessage(r, env.HUBSPOT_API_KEY)
               /\ ~failure =>
                     /\ DOMAIN rep = {"content"}
                     /\ rep.content[1].text = JSONStringify(r.outcome.body.value)

C12_Witness ==
    \E r \in Calls :
        /\ r.pc = "done"
        /\ r.settled
        /\ r.outcome.body.valid
        /\ r.outcome.body.value.t = "array"
        /\ "isError" \notin DOMAIN r.replies[1]

\* C13 as claimed: on the stdio path, the synchronous path and the streaming
\* path alike, a failed invocation reports as its message the description of
\* the failure (the message of the error that handleToolCall threw).
C13_SameMessageOnAllPaths ==
    \A r \in Dispatched :
        (r.pc = "done" /\ DispatchFailed(r, env.HUBSPOT_API_KEY)) =>
            ReportedMessage(r) = FailureMessage(r, env.HUBSPOT_API_KEY)

\* What an invocation reports, with the path it came by left out: the kind of
\* outcome, the payload and the message.
Reported(r) ==
    IF FailureForm(r)
    THEN [failure |-> TRUE, payload |-> JNull,
          message |-> IF r.route = "call"
                      THEN SubSeq(ReportedMessage(r), 2, Len(ReportedMessage(r)))
                      ELSE ReportedMessage(r)]
    ELSE [failure |-> FALSE, message |-> <<>>,
          payload |-> CASE r.route = "call" -> r.outcome.body.value
                        [] r.route = "sync" -> r.replies[1].body.result
                        [] r.route = "stream" -> Last(r.events).data.result]

\* C13 as amended: what a finished invocation reports depends on the tool
\* name, the arguments and the upstream outcome only, not on the path: the
\* same kind and the same payload on all three paths, and the same failure
\* description, which the two HTTP paths report as it is and the stdio path
\* reports with "Error: " in front.
C13_TransportAgnostic ==
    \A r \in Dispatched :
        r.pc = "done" =>
            /\ Reported(r) =
                 IF DispatchFailed(r, env.HUBSPOT_API_KEY)
                 THEN [failure |-> TRUE, payload |-> JNull,
                       message |-> FailureMessage(r, env.HUBSPOT_API_KEY)]
                 ELSE [failure |-> FALSE, message |-> <<>>,
                       payload |-> r.outcome.body.value]
            /\ (FailureForm(r) /\ r.route = "call") => ReportedMessage(r)[1] = "Error: "
            /\ (SuccessForm(r) /\ r.route = "call") =>
                    r.replies[1].content[1].text = JSONStringify(r.outcome.body.value)

C13_Witness ==
    \E r \in Dispatched :
        /\ r.pc = "done"
        /\ r.route = "call"
        /\ r.settled
        /\ r.outcome.status = 300
        /\ ReportedMessage(r) =
             <<"Error: ", "HubSpot API error: ", "300", " - ", "not found">>


(***************************************************************************)
(* Overlapping invocations: two requests in flight at once, interleaved at *)
(* their suspension points, with clients that may close the connection.    *)
(***************************************************************************)
ConcSlots == {1, 2}

ConcNames == {"get_contact", "nonexistent_tool"}

ConcArgs == { NoArgs, Obj([contactId |-> "42"]) }

ConcOutcomes ==
    { [kind |-> "reject", message |-> <<"fetch failed">>, status |-> 0, body |-> TextBody(<<>>)],
      [kind |-> "response", message |-> <<>>, status |-> 404,
       body |-> TextBody(<<"not found">>)],
      [kind |-> "response", message |-> <<>>, status |-> 200, body |-> JsonBody(JString(3, 2))],
      [kind |-> "response", message |-> <<>>, status |-> 200, body |-> JsonBody(JString(999, 0))] }

InitConc ==
    /\ env \in Environments
    /\ proc = "loading"
    /\ connected = FALSE
    /\ listening = FALSE
    /\ inv = [s \in ConcSlots |-> Idle]
    /\ served = 0
    /\ failed = 0
    /\ unit = UnitIdle

NextConc ==
    \/ Startup
    \/ \E s \in ConcSlots : StdioListTools(s)
    \/ \E s \in ConcSlots, now \in Timestamps : HttpGetHealth(s, now)
    \/ \E s \in ConcSlots, name \in ConcNames, args \in ConcArgs : StdioCallTool(s, name, args)
    \/ \E s \in ConcSlots, name \in ConcNames, args \in ConcArgs : HttpPostTool(s, name, args)
    \/ \E s \in ConcSlots, name \in ConcNames, args \in ConcArgs : HttpPostExecute(s, name, args)
    \/ \E s \in ConcSlots, outcome \in ConcOutcomes : UpstreamSettle(s, outcome)
    \/ \E s \in ConcSlots : TimerFire(s)
    \/ \E s \in ConcSlots : ClientClose(s)

ConcSpec == InitConc /\ [][NextConc]_vars

\* An invocation run by itself from its request to its end, given how its
\* upstream call ended.
RECURSIVE RunToEnd(_)
RunToEnd(r) ==
    IF r.pc = "delay" THEN RunToEnd(StreamLoop([r EXCEPT !.i = @ + chunkSize])) ELSE r

Alone(r, key) ==
    LET fresh == [Idle EXCEPT !.route = r.route, !.name = r.name, !.args = r.args,
                              !.id = r.id]
        started == IF r.route = "stream"
                   THEN sendEvent(fresh, "start", [tool |-> r.name, args |-> r.args])
                   ELSE fresh
        first == Dispatch(started, key)
    IN IF first.pc = "fetch" /\ r.settled
       THEN RunToEnd(Settle([first EXCEPT !.settled = TRUE, !.outcome = r.outcome],
                            makeHubSpotRequestSettle(r.outcome)))
       ELSE first

IsPrefix(a, b) == Len(a) <= Len(b) /\ a = SubSeq(b, 1, Len(a))

\* C14: under every interleaving of two invocations, each one is at every
\* moment where it would be running alone: what it has written is the start
\* of what it writes alone, when finished it has reported exactly what it
\* reports alone, and a step of one invocation changes nothing of the other.
C14_Independent ==
    /\ [](\A s \in DOMAIN inv :
            LET r == inv[s]
                alone == Alone(r, env.HUBSPOT_API_KEY)
            IN r.route \in {"call", "sync", "stream"} =>
                 /\ IsPrefix(r.events, alone.events)
                 /\ IsPrefix(r.replies, alone.replies)
                 /\ r.requests = alone.requests
                 /\ r.pc = "done" => [r EXCEPT !.closedAt = "open"] = alone)
    /\ [][\A s, t \in DOMAIN inv : (s # t /\ inv'[s] # inv[s]) => inv'[t] = inv[t]]_vars

C14_Witness ==
    \E s, t \in DOMAIN inv :
        /\ s # t
        /\ inv[s].pc = "delay"
        /\ inv[t].pc = "delay"
        /\ CountKind(inv[s], "chunk") = 2
        /\ CountKind(inv[t], "chunk") = 1
        /\ inv[s].result # inv[t].result


\* One HTTP invocation at a time whose client may close the connection.
\* The event loop runs every due timer, and fetch settles every request it
\* was given (with a response or a rejection).
NextClose ==
    \/ Startup
    \/ \E s \in Slots, name \in ConcNames, args \in ConcArgs : HttpPostTool(s, name, args)
    \/ \E s \in Slots, name \in ConcNames, args \in ConcArgs : HttpPostExecute(s, name, args)
    \/ \E s \in Slots, outcome \in ConcOutcomes : UpstreamSettle(s, outcome)
    \/ \E s \in Slots : TimerFire(s)
    \/ \E s \in Slots : ClientClose(s)

CloseSpec ==
    /\ Init
    /\ [][NextClose]_vars
    /\ \A s \in Slots :
          /\ WF_vars(\E outcome \in ConcOutcomes : UpstreamSettle(s, outcome))
          /\ WF_vars(TimerFire(s))

InFlight(r) == r.pc \in {"fetch", "delay"}

RunsThrough(r) ==
    /\ r.pc = "done"
    /\ r.route = "stream" => r.ended /\ Terminal(Last(r.events))
    /\ r.route = "sync" => Len(r.replies) = 1

\* C15: closing the client connection of an invocation in flight, before the
\* upstream call returns or between chunks, changes nothing but the
\* connection: the upstream request stays issued and can still settle, the
\* chunk timer can still fire, and the invocation goes on to its terminal
\* step (complete or error, then end).
C15_NoCancellation ==
    /\ [][\A s \in DOMAIN inv :
            (inv[s].closedAt = "open" /\ inv'[s].closedAt # "open") =>
                /\ InFlight(inv[s])
                /\ inv'[s] = [inv[s] EXCEPT !.closedAt = inv[s].pc]]_vars
    /\ [](\A s \in Slots :
            inv[s].closedAt # "open" =>
                /\ Len(inv[s].requests) = 1
                /\ inv[s].pc = "fetch" =>
                      ENABLED (\E outcome \in ConcOutcomes : UpstreamSettle(s, outcome))
                /\ inv[s].pc = "delay" => ENABLED TimerFire(s)
                /\ ~InFlight(inv[s]) => RunsThrough(inv[s]))
    /\ \A s \in Slots :
          (inv[s].closedAt # "open" /\ InFlight(inv[s]))
              ~> (inv[s].closedAt # "open" /\ RunsThrough(inv[s]))

C15_Witness ==
    \E s \in DOMAIN inv :
        /\ inv[s].closedAt = "delay"
        /\ inv[s].route = "stream"
        /\ RunsThrough(inv[s])
        /\ CountKind(inv[s], "chunk") = 2
        /\ Last(inv[s].events).event = "complete"

(***************************************************************************)
(* The two functions on their own: handleToolCall and makeHubSpotRequest   *)
(* applied to inputs drawn from bounded sets, one call at a time.          *)
(***************************************************************************)
UnitArgInputs ==
    { NoArgs,
      Obj(<<>>),
      Obj([limit |-> 0]),
      Obj([limit |-> 5]),
      Obj([limit |-> 10]),
      Obj([limit |-> 100]),
      Obj([query |-> "a@b.com"]),
      Obj([query |-> ""]),
      Obj([query |-> "CONTAINS_TOKEN"]),
      Obj([query |-> "a@b.com", limit |-> 5]),
      Obj([contactId |-> "42", properties |-> [firstname |-> "Jane"]]) }

UnitEndpoints == { <<"/crm/v3/objects/contacts">>, <<"/crm/v3/objects/deals?limit=", "10">> }

OptionInputs ==
    { <<>>,
      [method |-> "POST", body |-> "{}"],
      [headers |-> ("X-Trace" :> <<"1">>)],
      [headers |-> ("Authorization" :> <<"Bearer other">>)],
      [method |-> "POST", body |-> "{}",
       headers |-> ("Content-Type" :> <<"text/plain">>) @@ ("X-Trace" :> <<"1">>)] }

UnitStatuses == {199, 200, 204, 299, 300, 404, 500}

UnitOutcomes ==
    { [kind |-> "reject", message |-> <<"fetch failed">>, status |-> 0, body |-> TextBody(<<>>)] }
    \cup { [kind |-> "response", message |-> <<>>, status |-> st, body |-> b] :
             st \in UnitStatuses,
             b \in {TextBody(<<>>), TextBody(<<"not found">>), JsonBody(JNull),
                    JsonBody(JString(3, 2))} }

UnitDispatch(name, args) ==
    /\ proc = "running"
    /\ unit.pc = "idle"
    /\ unit' = [UnitIdle EXCEPT !.pc = "dispatched", !.name = name, !.args = args,
                                !.call = handleToolCall(env.HUBSPOT_API_KEY, name, args)]
    /\ UNCHANGED <<env, proc, connected, listening, inv, served, failed>>

UnitRequest(endpoint, options) ==
    /\ proc = "running"
    /\ unit.pc = "idle"
    /\ unit' = [UnitIdle EXCEPT !.pc = "requested", !.endpoint = endpoint,
                                !.options = options,
                                !.call = makeHubSpotRequest(env.HUBSPOT_API_KEY,
                                                            endpoint, options)]
    /\ UNCHANGED <<env, proc, connected, listening, inv, served, failed>>

UnitSettle(outcome) ==
    /\ proc = "running"
    /\ unit.pc \in {"dispatched", "requested"}
    /\ unit.call.kind = "fetch"
    /\ unit' = [unit EXCEPT !.pc = "settled", !.outcome = outcome,
                            !.result = makeHubSpotRequestSettle(outcome)]
    /\ UNCHANGED <<env, proc, connected, listening, inv, served, failed>>

InitUnit == Init

NextUnit ==
    \/ Startup
    \/ \E name \in NameInputs, args \in UnitArgInputs : UnitDispatch(name, args)
    \/ \E endpoint \in UnitEndpoints, options \in OptionInputs : UnitRequest(endpoint, options)
    \/ \E outcome \in UnitOutcomes : UnitSettle(outcome)

UnitSpec == InitUnit /\ [][NextUnit]_vars

Issued == unit.call.kind = "fetch"

CallerHeaders == IF "headers" \in DOMAIN unit.options THEN unit.options.headers ELSE <<>>

UnitSettled == unit.pc = "settled"

UpstreamError(status, body) ==
    Throw(<<"HubSpot API error: ", ToString(status), " - ">> \o body.text)

StdioRoutes == {"list", "call"}

\* C18: on stdio every "list tools" or "call tool" request gets exactly one
\* response and nothing is sent without a request; a request is never
\* dropped unanswered; and with two requests overlapping, each response is
\* sent in the step its own invocation completes, which can happen while an
\* earlier request is still waiting.
C18_StdioOneToOne ==
    /\ [](\A s \in ConcSlots :
            LET r == inv[s]
            IN /\ r.route \in StdioRoutes =>
                     /\ Len(r.replies) <= 1
                     /\ Len(r.replies) = 1 <=> r.pc = "done"
                     /\ r.pc \in {"fetch", "done"}
                     /\ r.events = <<>>
               /\ r.pc = "idle" => r.replies = <<>>
               /\ (r.route = "call" /\ r.pc = "fetch") =>
                     ENABLED (\E outcome \in ConcOutcomes : UpstreamSettle(s, outcome)))
    /\ [][\A s \in ConcSlots :
            /\ (inv'[s].id # inv[s].id /\ inv[s].route \in StdioRoutes) =>
                  Len(inv[s].replies) = 1
            /\ (inv'[s].id = inv[s].id /\ inv[s].route \in StdioRoutes) =>
                  /\ inv'[s].route = inv[s].route
                  /\ IsPrefix(inv[s].replies, inv'[s].replies)
                  /\ (inv[s].pc = "fetch" /\ inv'[s].settled) =>
                        Len(inv'[s].replies) = 1]_vars

C18_Witness ==
    \E s, t \in DOMAIN inv :
        /\ inv[s].route = "call"
        /\ inv[t].route = "call"
        /\ inv[s].id < inv[t].id
        /\ inv[s].pc = "fetch"
        /\ inv[t].settled
        /\ Len(inv[t].replies) = 1


UnitDispatched == unit.pc = "dispatched"

ListPaths == [list_deals |-> "/crm/v3/objects/deals?limit=",
              list_companies |-> "/crm/v3/objects/companies?limit="]

Numerals == { ToString(n) : n \in 0..100 }

\* C19: list_deals and list_companies, given an argument object, issue a GET
\* whose path ends in limit=<the caller's limit> when the object has a limit
\* (limit=5 for {limit: 5}) and in limit=10 when it has none; the path always
\* carries a numeral.
C19_ListLimit ==
    (UnitDispatched /\ unit.name \in DOMAIN ListPaths /\ unit.args.present) =>
        /\ unit.call.kind = "fetch"
        /\ "method" \notin DOMAIN unit.call.request.init
        /\ LET url == unit.call.request.url
           IN /\ Len(url) = 3
              /\ url[1] = HUBSPOT_API_BASE
              /\ url[2] = ListPaths[unit.name]
              /\ url[3] \in Numerals
              /\ "limit" \in DOMAIN unit.args.fields =>
                    url[3] = ToString(unit.args.fields.limit)
              /\ ("limit" \in DOMAIN unit.args.fields /\ unit.args.fields.limit = 5) =>
                    url[3] = "5"
              /\ "limit" \notin DOMAIN unit.args.fields => url[3] = "10"

C19_Witness ==
    /\ UnitDispatched
    /\ unit.name = "list_companies"
    /\ Has(unit.args, "limit")
    /\ unit.args.fields.limit = 0
    /\ unit.call.kind = "fetch"
    /\ unit.call.request.url[3] = "0"

Healths == { r \in Invocations : r.route = "health" }

\* C21: every answer to GET /health is HTTP 200 with exactly {status:
\* "healthy", timestamp}, and handling it issues no upstream request and
\* writes no event; a listening server can take the request whatever the
\* other invocation is doing and however many upstream calls have failed.
C21_HealthAlways200 ==
    /\ [](\A r \in Healths :
            /\ r.pc = "done"
            /\ r.requests = <<>>
            /\ r.events = <<>>
            /\ ~r.settled
            /\ Len(r.replies) = 1
            /\ r.replies[1].status = 200
            /\ DOMAIN r.replies[1].body = {"status", "timestamp"}
            /\ r.replies[1].body.status = "healthy"
            /\ r.replies[1].body.timestamp \in Timestamps)
    /\ [](\A s \in ConcSlots :
            ( /\ listening
              /\ proc = "running"
              /\ served < MaxRequests
              /\ inv[s].pc \in {"idle", "done"} ) =>
                \A now \in Timestamps : ENABLED HttpGetHealth(s, now))
    /\ [][\A s \in ConcSlots :
            (inv'[s].route = "health" /\ inv'[s].id # inv[s].id) =>
                \A t \in ConcSlots : t # s => inv'[t] = inv[t]]_vars

C21_Witness ==
    \E s, t \in DOMAIN inv :
        /\ inv[s].route = "health"
        /\ inv[s].replies[1].status = 200
        /\ inv[t].route = "stream"
        /\ inv[t].id < inv[s].id
        /\ Failed(inv[t])
        /\ failed = 1


\* The k-th chunk event of an invocation (the start event comes first).
ChunkAt(r, k) == r.events[k + 1]

\* C22: the progress values of the chunk events of one streaming invocation,
\* as exact quotients num/den over the result length L: each lies in
\* (0, 100], they never decrease from chunk to chunk, the k-th equals
\* min(100, 100 * k * chunkSize / L), and the last one is exactly 100.
C22_Progress ==
    \A r \in Streams :
        r.hasResult =>
            LET L == Len(r.resultStr)
                count == CountKind(r, "chunk")
            IN /\ \A k \in 1..count :
                    LET p == ChunkAt(r, k).data.progress
                    IN /\ ChunkAt(r, k).event = "chunk"
                       /\ p.den = L
                       /\ p.num > 0
                       /\ p.num <= 100 * p.den
                       /\ p.num = Min(100 * L, 100 * k * chunkSize)
                       /\ k > 1 => ChunkAt(r, k - 1).data.progress.num <= p.num
               /\ r.pc = "done" =>
                    ChunkAt(r, count).data.progress.num = 100 * L

C22_Witness ==
    \E r \in Streams :
        /\ r.hasResult /\ r.pc = "done"
        /\ CountKind(r, "chunk") = 3
        /\ ChunkAt(r, 1).data.progress.num < ChunkAt(r, 2).data.progress.num
        /\ ChunkAt(r, 2).data.progress.num < 100 * Len(r.resultStr)
        /\ ChunkAt(r, 3).data.progress.num = 100 * Len(r.resultStr)


\* C23: in every streaming invocation the start event, echoing the tool name
\* and the arguments, is written before the upstream request is issued and
\* also when the tool is unknown; chunks are written only once the upstream
\* call has completed; and the handler is suspended only at the upstream
\* call and at the delay after a chunk, writing one event per resumption.
C23_StartFirstThenYield ==
    /\ [](\A r \in Streams :
            /\ Len(r.events) >= 1
            /\ r.events[1].event = "start"
            /\ r.events[1].data = [tool |-> r.name, args |-> r.args]
            /\ r.requests # <<>> => r.issuedAt = 1
            /\ r.requests = <<>> => r.issuedAt = -1 /\ r.pc = "done"
            /\ r.pc \in {"fetch", "delay", "done"}
            /\ r.pc = "fetch" =>
                  /\ ~r.settled
                  /\ Len(r.requests) = 1
                  /\ EventKinds(r) = <<"start">>
            /\ r.pc = "delay" => Last(r.events).event = "chunk"
            /\ CountKind(r, "chunk") >= 1 =>
                  /\ r.settled
                  /\ r.outcome.kind = "response"
                  /\ r.hasResult)
    /\ [][\A s \in Slots :
            (inv[s].route = "stream" /\ inv'[s].id = inv[s].id /\ inv'[s] # inv[s]) =>
                /\ inv[s].pc \in {"fetch", "delay"}
                /\ Len(inv'[s].events) = Len(inv[s].events) + 1
                /\ IsPrefix(inv[s].events, inv'[s].events)]_vars

C23_Witness ==
    \E r \in Streams :
        /\ r.pc = "delay"
        /\ r.issuedAt = 1
        /\ r.settled
        /\ EventKinds(r) = <<"start", "chunk">>
        /\ Len(r.resultStr) > chunkSize


\* C24: every dispatch of a registered tool has issued exactly one upstream
\* request, whatever the arguments; a dispatch of an unknown tool has issued
\* none; and no invocation ever issues a second request, also after a
\* failed one.
C24_OneRequestPerDispatch ==
    \A r \in Dispatched :
        /\ r.name \in RegisteredNames => Len(r.requests) = 1
        /\ r.name \notin RegisteredNames => r.requests = <<>>
        /\ Len(r.requests) <= 1


Lists == { r \in Invocations : r.route = "list" }

NamesOf(tools) == [k \in 1..Len(tools) |-> tools[k].name]

Resolves(name, args) == handleToolCall(env.HUBSPOT_API_KEY, name, args) # UnknownTool(name)

\* C25: every answer to "list tools" carries the same eight pairwise distinct
\* names in the declaration order, and a dispatched name reaches a handler
\* exactly when it is one of them: every other name fails as unknown tool,
\* with no request issued.
C25_AdvertisedIsDispatchable ==
    /\ \A r \in Lists :
          LET names == NamesOf(r.replies[1].tools)
          IN /\ Len(r.replies) = 1
             /\ names = <<"search_contacts", "get_contact", "create_contact",
                          "update_contact", "list_deals", "create_deal",
                          "list_companies", "create_company">>
             /\ Cardinality({ names[k] : k \in 1..Len(names) }) = 8
             /\ { names[k] : k \in 1..Len(names) } = RegisteredNames
    /\ \A r \in Dispatched :
          /\ r.name \in RegisteredNames <=> Resolves(r.name, r.args)
          /\ r.name \notin RegisteredNames =>
                /\ r.pc = "done"
                /\ r.requests = <<>>
                /\ ReportedMessage(r) \in { <<"Unknown tool: ", r.name>>,
                                            <<"Error: ", "Unknown tool: ", r.name>> }

C25_Witness ==
    \E r \in Lists :
        /\ r.id = 2
        /\ Len(r.replies[1].tools) = 8
        /\ served = 2


StreamEnded(r) ==
    /\ r.route = "stream"
    /\ r.pc = "done"
    /\ r.ended
    /\ Terminal(Last(r.events))

\* C26: when every upstream call settles and every chunk timer fires, a
\* streaming invocation in flight goes on to write its terminal event and
\* end the stream, having written no more than ceil(L / chunkSize) chunks;
\* and while its upstream call has not settled it has written no terminal
\* event and has not ended, the only step leaving that wait being the
\* settlement itself (no timeout).
C26_StreamTerminates ==
    /\ \A s \in Slots :
          (inv[s].route = "stream" /\ InFlight(inv[s])) ~> StreamEnded(inv[s])
    /\ [](\A r \in Streams :
            /\ CountKind(r, "chunk") <= (Len(r.resultStr) + chunkSize - 1) \div chunkSize
            /\ r.pc = "fetch" =>
                  /\ ~r.ended
                  /\ CountKind(r, "complete") + CountKind(r, "error") = 0
            /\ r.pc = "done" => StreamEnded(r))
    /\ [][\A s \in Slots :
            (inv[s].route = "stream" /\ inv[s].pc = "fetch" /\ inv'[s] # inv[s]) =>
                \/ inv'[s] = [inv[s] EXCEPT !.closedAt = "fetch"]
                \/ /\ inv'[s].settled
                   /\ inv'[s].outcome \in ConcOutcomes]_vars

C26_Witness ==
    \E r \in Streams :
        /\ StreamEnded(r)
        /\ r.closedAt = "open"
        /\ r.settled
        /\ EventKinds(r) = <<"start", "chunk", "chunk", "complete">>

====
